---- MODULE Spec2Model ----
(***************************************************************************)
(* A model of the browser automation layer of genstudio:                   *)
(*   src/src/genstudio/chrome_devtools.py  (ChromeContext)                 *)
(*   src/src/genstudio/screenshots.py      (StudioContext)                 *)
(* One session object, the single thread that drives it, and the browser   *)
(* at the other end of its websocket.                                      *)
(***************************************************************************)
EXTENDS Integers, Sequences, FiniteSets, TLC

(* ---- bounds ---- *)
MaxCmds == 6      \* cap on the request-id counter
MaxNoise == 1     \* unsolicited events other than Page.loadEventFired
MaxUpd == 2       \* longest state_updates list passed to a sequence operation

(* ---- program constants ---- *)
DEBUG == FALSE    \* chrome_devtools.py:19
Timeout == 10     \* chrome_devtools.py:139, seconds

None == "None"
NoId == 0         \* a message without an "id" key
NoErr == "none"   \* a response without an "error" key
Errs == {NoErr, "E1"}
\* the auxiliary-file maps passed to set_content
FileMaps == {{}, {"studio.js", "assets/studio.css"}}

VARIABLES
  chrome_process, \* self.chrome_process: None or a Popen handle
  ws,             \* self.ws: None or a websocket
  cmd_id,         \* self.cmd_id
  proc,           \* the spawned browser process: "none", "running", "exited"
  conn,           \* the transport: "none", "open", "dropped" (closed by the
                  \* peer, not yet noticed), "dead" (noticed), "closed"
  inbox,          \* messages written by the browser, not yet read by recv()
  pendingReq,     \* commands the browser has received and not yet answered
  pendingLoads,   \* navigations whose load event the browser has yet to fire
  noise,          \* number of other unsolicited events emitted so far
  scope,          \* "manual", or the position in a with-statement:
                  \* "new", "entering", "body", "exiting", "left"
  studio,         \* the with-statement is over a StudioContext with a plot
  pc,             \* "idle" or "run"
  op,             \* the operation running, or the last one run
  todo,           \* the steps of op still to run
  waiting,        \* inside the recv loop of _send_command
  exc,            \* exception the last operation ended with, or "none"
  excErr,         \* the error a ProtocolError carries
  served,         \* inside the TemporaryDirectory/TCPServer blocks
  listening,      \* content-server sockets that are open
  tmpDirs,        \* temporary directories on disk
  threadsAlive,   \* content-server threads that are alive
  curNav,         \* the navigation issued by the current set_content
  navCount,       \* navigations issued so far (0 is the blank placeholder)
  lastLoad,       \* navigation of the load event that ended the last wait
  curAnswered,    \* the browser has written the response to curNav's command
  curFired,       \* the browser has written curNav's load event
  nSent,          \* number of commands written to a connection
  lastSentId,     \* id of the last command written
  inflight,       \* commands written to this connection, response not read
  ret,            \* the message the last _send_command matched, the id and
                  \* the request it was waiting for, 1 if it skipped a message
  stopActs,       \* what the last stop() did
  stopsInRow,     \* consecutive stop() calls, capped at 2
  acked,          \* domains whose enable command this connection acknowledged
  elapsed,        \* seconds since start_time was taken in start()
  grace,          \* the last stop(): the process "exited" within the grace
                  \* period, or it "expired"; "none" if nothing was terminated
  retval,         \* what the last operation returned
  nUpd,           \* len(state_updates) of the sequence operation
  nNames,         \* len(filenames), -1 for None
  updSent,        \* update_state commands written by the operation
  updSeen,        \* update_state commands the page has run
  updFailed,      \* an update of the operation threw in the page
  frames,         \* the frames the operation has captured, in order
  written,        \* the frames written to the encoder's stdin, in order
  outDir,         \* the operation has created its output directory
  filesOut,       \* image files the operation has written
  files,          \* the auxiliary-file map of set_content
  loadSeen,       \* the load wait of the current set_content saw a load event
  rootFiles,      \* the files under the served root
  encoder,        \* the ffmpeg process: "none", "running", "exited",
                  \* "terminated"
  pipe,           \* its stdin: "none", "open", "closed"
  argIsList,      \* the argument of update_state is a list
  toPath,         \* screenshot / save_image was given an output path
  returncode,     \* proc.returncode of ffmpeg, None while it runs
  droppedInWait,  \* the connection went away during the load wait of the
                  \* current set_content, before its load event was written
  fleet           \* two sessions on the default port (PortSpec)

vars == <<chrome_process, ws, cmd_id, proc, conn, inbox, pendingReq,
          pendingLoads, noise, scope, studio, pc, op, todo, waiting, exc,
          excErr, served, listening, tmpDirs, threadsAlive, curNav, navCount,
          lastLoad, curAnswered, curFired, nSent, lastSentId, inflight, ret,
          stopActs, stopsInRow, acked, elapsed, grace, retval, nUpd, nNames,
          updSent, updSeen, updFailed, frames, written, outDir, filesOut,
          files, loadSeen, rootFiles, encoder, pipe, argIsList, toPath,
          returncode, droppedInWait, fleet>>

\* one session
mainVars ==
  <<chrome_process, ws, cmd_id, proc, conn, inbox, pendingReq, pendingLoads,
    noise, scope, studio, pc, op, todo, waiting, exc, excErr, served,
    listening, tmpDirs, threadsAlive, curNav, navCount, lastLoad, curAnswered,
    curFired, nSent, lastSentId, inflight, ret, stopActs, stopsInRow, acked,
    elapsed, grace, retval, nUpd, nNames, updSent, updSeen, updFailed, frames,
    written, outDir, filesOut, files, loadSeen, rootFiles, encoder, pipe,
    argIsList, toPath, returncode, droppedInWait>>

fields == <<chrome_process, ws, cmd_id>>
browser == <<inbox, pendingReq, pendingLoads, noise>>
servers == <<served, listening, tmpDirs, threadsAlive>>
loadGhost == <<curNav, navCount, lastLoad, curAnswered, curFired>>
sendGhost == <<nSent, lastSentId, inflight>>
stopGhost == <<stopActs, stopsInRow>>
startGhost == <<acked, elapsed, grace>>
seqVars == <<nUpd, nNames, updSent, updSeen, updFailed, frames, written,
             outDir, filesOut>>
fileGhost == <<files, loadSeen>>
\* what an exception that leaves an operation may release
unwound == <<rootFiles, encoder, pipe>>
opArgs == <<argIsList, toPath, returncode, droppedInWait>>

(* ---- messages ---- *)
Msg(id, method, err, nav, req) ==
  [id |-> id, method |-> method, err |-> err, nav |-> nav, req |-> req,
   res |-> "", frame |-> 0]
\* a response: res is the kind of result it carries, frame the bitmap
Resp(id, err, req, res, frame) ==
  [Msg(id, "", err, 0, req) EXCEPT !.res = res, !.frame = frame]
NoMsg == Msg(NoId, "", NoErr, 0, 0)
NoRet == [msg |-> NoMsg, id |-> 0, req |-> 0, skipped |-> 0]

(* ---- the steps of the operations ---- *)
SetSizeSteps ==
  <<"Browser.getWindowForTarget", "Browser.setWindowBounds",
    "Page.setDeviceMetricsOverride">>
StartSteps ==
  <<"Popen", "poll", "create_connection", "Page.enable", "Runtime.enable">>
SetContentStepsNavigateFirst ==
  SetSizeSteps \o <<"Page.navigate", "serve", "wait_load", "shutdown">>
SetContentSteps ==
  SetSizeSteps \o <<"serve", "Page.navigate", "wait_load", "shutdown">>
LoadHtmlSteps == SetContentSteps
LoadPlotSteps ==
  <<"load_studio_html.evaluate", "load_plot.evaluate", "measure_size.evaluate">>

\* capture_image_sequence, save_image_sequence, capture_video
RECURSIVE Repeat(_, _)
Repeat(s, n) == IF n = 0 THEN <<>> ELSE s \o Repeat(s, n - 1)

CaptureUpdateSteps == <<"capture_image", "update_state.evaluate">>
UpdateCaptureSteps == <<"update_state.evaluate", "capture_image">>
CaptureSequenceSteps(n) == Repeat(UpdateCaptureSteps, n) \o <<"return_frames">>
SaveSequenceSteps(n) ==
  <<"prepare_output">> \o Repeat(UpdateCaptureSteps, n) \o <<"write_files">>
VideoTail == <<"pipe_close", "proc_wait">>
VideoSteps(n) ==
  <<"spawn_encoder">> \o Repeat(UpdateCaptureSteps \o <<"pipe_write">>, n)
    \o VideoTail
SeqOps == {"capture_image_sequence", "save_image_sequence", "capture_video"}
\* save_image: n is 1 when a state update is given
SaveImageStepsCaptureFirst(n) ==
  <<"capture_image">> \o Repeat(<<"update_state.evaluate">>, n)
    \o <<"save_image.write">>
SaveImageSteps(n) ==
  Repeat(<<"update_state.evaluate">>, n)
    \o <<"capture_image", "save_image.write">>
\* update_state called by the user
UpdateStateStepsSendFirst == <<"update_state.evaluate", "check_list">>
UpdateStateSteps == <<"check_list", "update_state.evaluate">>
SeqTodo(o, n) ==
  CASE o = "capture_image_sequence" -> CaptureSequenceSteps(n)
    [] o = "save_image_sequence" -> SaveSequenceSteps(n)
    [] o = "capture_video" -> VideoSteps(n)
\* filenames: None, a list as long as state_updates, a list one longer
NamesArgs(n) == {-1, n, n + 1}
FilenameMismatch(names, n) == names > 0 /\ names # n

EvaluateSteps == {"Runtime.evaluate", "load_studio_html.evaluate",
                  "load_plot.evaluate", "measure_size.evaluate",
                  "update_state.evaluate"}
Commands ==
  {"Browser.getWindowForTarget", "Browser.setWindowBounds",
   "Page.setDeviceMetricsOverride", "Page.enable", "Runtime.enable",
   "Page.navigate", "Page.captureScreenshot", "capture_image"}
    \cup EvaluateSteps
\* capture_image: one screenshot command
CaptureImageMethod == "Page.captureScreenshot"
Method(step) ==
  IF step \in EvaluateSteps THEN "Runtime.evaluate"
  ELSE IF step = "capture_image" THEN CaptureImageMethod ELSE step

\* the kinds of result the browser can put in the response to a command
Results(step) ==
  CASE step = "Runtime.evaluate" -> {"value", "exceptionDetails"}
    [] step = "update_state.evaluate" -> {"value", "error: message"}
    [] step = "capture_image" -> {"data"}
    [] step = "Page.captureScreenshot" -> {"data", "no data"}
    [] OTHER -> {"ok"}
\* evaluate: result.get("result", {}).get("value")
EvaluateReturn(msg) ==
  IF msg.res = "exceptionDetails" THEN None ELSE msg.res

StartTodoAlwaysSpawns(cp) == StartSteps
StartTodo(cp) == IF cp # None THEN SetSizeSteps ELSE StartSteps
EnterTodo(isStudio) ==
  StartSteps \o (IF isStudio THEN LoadPlotSteps ELSE <<>>)
OpTodo(o, cp) ==
  CASE o = "start" -> StartTodo(cp)
    [] o = "set_size" -> SetSizeSteps
    [] o = "set_content" -> SetContentSteps
    [] o = "evaluate" -> <<"Runtime.evaluate">>
    [] o = "screenshot" -> <<"Page.captureScreenshot">>

\* what follows a command that returned: the branches taken on its result
After(step, rest) ==
  CASE step = "load_studio_html.evaluate" -> {rest, LoadHtmlSteps \o rest}
    [] step = "measure_size.evaluate" -> {rest, SetSizeSteps \o rest}
    [] OTHER -> {rest}

(* ---- two sessions constructed with the default port ---- *)
Sessions == {1, 2}
\* cp: the session holds a process handle; url: the page of the browser the
\* session spawned; found: the browser whose page target the poll returned;
\* target: the browser whose page the session's socket is connected to;
\* exc: what the session's start() raised;
\* owner: the session whose browser listens on the port
FleetInit ==
  [cp |-> [i \in Sessions |-> FALSE],
   url |-> [i \in Sessions |-> "none"],
   at |-> [i \in Sessions |-> "idle"],
   found |-> [i \in Sessions |-> 0],
   exc |-> [i \in Sessions |-> "none"],
   target |-> [i \in Sessions |-> 0],
   owner |-> 0]

(* ---- _send_command ---- *)
\* lines 163-166: the connection is checked before the id is advanced
CmdIdWhenNotConnectedAdvanced(id) == id + 1
CmdIdWhenNotConnected(id) == id
NextCmdIdStuck(id) == id
NextCmdId(id) == id + 1

IsMatchAny(msg, id) == TRUE
IsMatch(msg, id) == msg.id # NoId /\ msg.id = id

OnMatchIgnoresError(msg) == "return"
OnMatch(msg) == IF msg.err # NoErr THEN "raise" ELSE "return"

IsLoadEvent(msg) == msg.method = "Page.loadEventFired"

(* ---- screenshot: chrome_devtools.py 272-280 ---- *)
HasDataAlways(msg) == TRUE
HasData(msg) == msg.res = "data"
ScreenshotReturn(p) == IF p THEN "path" ELSE "bytes"

(* ---- start ---- *)
TimedOut(e) == e > Timeout

(* ---- stop ---- *)
StopWs(w) ==
  IF w # None THEN [acts |-> <<"ws.close">>, ws |-> None]
  ELSE [acts |-> <<>>, ws |-> w]

StopProcKeepsHandle(cp, graceful) ==
  IF cp # None /\ ~DEBUG
  THEN [acts |-> <<"terminate", "wait">>
                   \o (IF graceful THEN <<>> ELSE <<"kill">>),
        chrome_process |-> cp]
  ELSE [acts |-> <<>>, chrome_process |-> cp]
StopProc(cp, graceful) ==
  IF cp # None /\ ~DEBUG
  THEN [acts |-> <<"terminate", "wait">>
                   \o (IF graceful THEN <<>> ELSE <<"kill">>),
        chrome_process |-> None]
  ELSE [acts |-> <<>>, chrome_process |-> cp]

\* stop(): the socket first, then the process
StopActsProcFirst(w, p) == p.acts \o w.acts
StopActs(w, p) == w.acts \o p.acts

(* ---- capture_video: the except clause, screenshots.py 354-359 ---- *)
VideoHandler(e, o, enc, p) ==
  IF o = "capture_video" /\ enc # "none" /\ e # "KeyboardInterrupt"
  THEN [pipe |-> "closed",
        encoder |-> IF enc = "running" THEN "terminated" ELSE enc]
  ELSE [pipe |-> p, encoder |-> enc]

(* ---- initial state: ChromeContext.__init__ ---- *)
Init ==
  /\ chrome_process = None /\ ws = None /\ cmd_id = 0
  /\ proc = "none" /\ conn = "none"
  /\ inbox = <<>> /\ pendingReq = {} /\ pendingLoads = {} /\ noise = 0
  /\ scope \in {"manual", "new"}
  /\ studio \in BOOLEAN
  /\ (scope = "manual" => ~studio)
  /\ pc = "idle" /\ op = "init" /\ todo = <<>> /\ waiting = FALSE
  /\ exc = "none" /\ excErr = NoErr
  /\ served = FALSE /\ listening = 0 /\ tmpDirs = 0 /\ threadsAlive = 0
  /\ curNav = 0 /\ navCount = 0 /\ lastLoad = 0
  /\ curAnswered = FALSE /\ curFired = FALSE
  /\ nSent = 0 /\ lastSentId = 0 /\ inflight = 0 /\ ret = NoRet
  /\ stopActs = <<>> /\ stopsInRow = 0
  /\ acked = {} /\ elapsed = 0 /\ grace = "none"
  /\ retval = None
  /\ nUpd = 0 /\ nNames = -1 /\ updSent = 0 /\ updSeen = 0
  /\ updFailed = FALSE /\ frames = <<>> /\ written = <<>>
  /\ outDir = FALSE /\ filesOut = 0
  /\ files = {} /\ loadSeen = FALSE /\ rootFiles = {}
  /\ encoder = "none" /\ pipe = "none"
  /\ argIsList = TRUE /\ toPath = FALSE /\ returncode = None
  /\ droppedInWait = FALSE
  /\ fleet = FleetInit

(* ---- control flow helpers ---- *)
\* set_content has sent its navigate command, has not left its load wait,
\* and the browser has not written the load event of that navigation
AwaitingLoad ==
  /\ pc = "run" /\ todo # <<>>
  /\ \/ Head(todo) = "wait_load"
     \/ Head(todo) = "Page.navigate" /\ waiting
  /\ ~curFired

\* an exception leaves the operation; the with-blocks of set_content unwind,
\* the except clause of capture_video runs if it catches the exception
Unwind(e, err) ==
  /\ exc' = e /\ excErr' = err
  /\ todo' = <<>> /\ waiting' = FALSE /\ pc' = "idle"
  /\ scope' = IF scope = "entering" THEN "left"
              ELSE IF scope = "body" THEN "exiting"
              ELSE IF e = "KeyboardInterrupt" THEN "interrupted" ELSE scope
  /\ served' = FALSE
  /\ listening' = IF served THEN listening - 1 ELSE listening
  /\ tmpDirs' = IF served THEN tmpDirs - 1 ELSE tmpDirs
  /\ rootFiles' = IF served THEN {} ELSE rootFiles
  /\ LET h == VideoHandler(e, op, encoder, pipe)
     IN encoder' = h.encoder /\ pipe' = h.pipe
  /\ UNCHANGED threadsAlive

\* the current step is done; rest is what remains of the operation
Continue(rest) ==
  /\ todo' = rest /\ waiting' = FALSE
  /\ pc' = IF rest = <<>> THEN "idle" ELSE "run"
  /\ scope' = IF rest = <<>> /\ scope = "entering" THEN "body" ELSE scope
  /\ UNCHANGED <<exc, excErr>>

AtStep(s) == pc = "run" /\ ~waiting /\ todo # <<>> /\ Head(todo) = s


ContinueS(rest) == Continue(rest) /\ UNCHANGED <<servers, unwound>>

(* ---- the caller ---- *)
\* a call of start, set_size, set_content, evaluate, screenshot,
\* capture_image_sequence, save_image_sequence or capture_video
Call ==
  /\ pc = "idle" /\ scope \in {"manual", "body"}
  /\ \E o \in {"start", "set_size", "set_content", "evaluate", "screenshot",
               "save_image", "update_state"} \cup SeqOps,
        n \in 0..MaxUpd, f \in FileMaps, p \in BOOLEAN, l \in BOOLEAN :
       /\ o \notin SeqOps \cup {"save_image"} => n = 0
       /\ o = "save_image" => n <= 1
       /\ o \notin {"screenshot", "save_image"} => ~p
       /\ o # "update_state" => l
       /\ toPath' = p /\ argIsList' = l
       /\ o # "set_content" => f = {}
       /\ \E names \in NamesArgs(n) :
            /\ o # "save_image_sequence" => names = -1
            /\ nNames' = names
       /\ op' = o
       /\ todo' = IF o \in SeqOps THEN SeqTodo(o, n)
                  ELSE IF o = "save_image" THEN SaveImageSteps(n)
                  ELSE IF o = "update_state" THEN UpdateStateSteps
                  ELSE OpTodo(o, chrome_process)
       /\ nUpd' = n /\ files' = f
  /\ pc' = "run" /\ waiting' = FALSE
  /\ exc' = "none" /\ excErr' = NoErr
  /\ stopActs' = <<>> /\ stopsInRow' = 0
  /\ ret' = NoRet /\ retval' = None
  /\ grace' = "none" /\ elapsed' = 0
  /\ updSent' = 0 /\ updSeen' = 0 /\ updFailed' = FALSE
  /\ frames' = <<>> /\ written' = <<>> /\ outDir' = FALSE /\ filesOut' = 0
  /\ loadSeen' = FALSE /\ encoder' = "none" /\ pipe' = "none"
  /\ returncode' = None /\ droppedInWait' = FALSE
  /\ UNCHANGED <<fields, proc, conn, browser, scope, studio, servers,
                 loadGhost, sendGhost, acked, rootFiles, fleet>>

\* the body of stop(): chrome_devtools.py 147-159
StopBody ==
  \E graceful \in BOOLEAN :
    LET w == StopWs(ws)
        p == StopProc(chrome_process, graceful)
    IN /\ ws' = w.ws
       /\ chrome_process' = p.chrome_process
       /\ stopActs' = StopActs(w, p)
       /\ stopsInRow' = IF stopsInRow < 2 THEN stopsInRow + 1 ELSE 2
       /\ conn' = IF w.acts # <<>> THEN "closed" ELSE conn
       /\ inbox' = IF w.acts # <<>> THEN <<>> ELSE inbox
       /\ pendingReq' = IF w.acts # <<>> THEN {} ELSE pendingReq
       /\ pendingLoads' = IF w.acts # <<>> THEN {} ELSE pendingLoads
       /\ proc' = IF p.acts # <<>> THEN "exited" ELSE proc
       /\ acked' = IF w.acts # <<>> THEN {} ELSE acked
       /\ grace' = IF p.acts = <<>> THEN "none"
                   ELSE IF graceful THEN "exited" ELSE "expired"
       /\ UNCHANGED <<cmd_id, noise, elapsed>>

\* a call of stop()
Stop ==
  /\ pc = "idle" /\ scope \in {"manual", "body"}
  /\ StopBody
  /\ op' = "stop" /\ exc' = "none" /\ excErr' = NoErr
  /\ ret' = NoRet /\ retval' = None
  /\ UNCHANGED <<scope, studio, pc, todo, waiting, servers, loadGhost,
                 sendGhost, seqVars, fileGhost, unwound, fleet, opArgs>>

\* stop() called from another thread while set_content is in its load wait
StopDuringLoad ==
  /\ AtStep("wait_load")
  /\ StopBody
  /\ droppedInWait' = (droppedInWait \/ AwaitingLoad)
  /\ UNCHANGED <<scope, studio, pc, op, todo, waiting, exc, excErr, servers,
                 loadGhost, sendGhost, ret, retval, seqVars, fileGhost,
                 unwound, argIsList, toPath, returncode, fleet>>

\* with ChromeContext(...) / StudioContext(plot=...): __enter__
WithEnter ==
  /\ scope = "new" /\ pc = "idle"
  /\ scope' = "entering"
  /\ op' = "__enter__" /\ todo' = EnterTodo(studio)
  /\ pc' = "run"
  /\ UNCHANGED <<fields, proc, conn, browser, studio, waiting, exc, excErr,
                 servers, loadGhost, sendGhost, ret, stopGhost, startGhost,
                 retval, seqVars, fileGhost, unwound, fleet, opArgs>>

\* the body of the with-statement ends without an exception
WithBodyEnd ==
  /\ scope = "body" /\ pc = "idle"
  /\ scope' = "exiting"
  /\ UNCHANGED <<fields, proc, conn, browser, studio, pc, op, todo, waiting,
                 exc, excErr, servers, loadGhost, sendGhost, ret, stopGhost,
                 startGhost, retval, seqVars, fileGhost, unwound, fleet,
                 opArgs>>

\* __exit__: runs after the body, however it ended; never after __enter__ raised
WithExit ==
  /\ scope = "exiting" /\ pc = "idle"
  /\ StopBody
  /\ scope' = "left" /\ op' = "__exit__"
  /\ UNCHANGED <<studio, pc, todo, waiting, exc, excErr, servers, loadGhost,
                 sendGhost, ret, retval, seqVars, fileGhost, unwound, fleet,
                 opArgs>>

\* Ctrl-C while the caller's thread is blocked: in recv(), in proc.wait();
\* outside a with-statement the program does not go on using the session
Interrupt ==
  /\ pc = "run" /\ todo # <<>>
  /\ (waiting \/ Head(todo) \in {"wait_load", "proc_wait"})
  /\ Unwind("KeyboardInterrupt", NoErr)
  /\ UNCHANGED <<fields, proc, conn, browser, studio, op, loadGhost,
                 sendGhost, ret, stopGhost, startGhost, retval, seqVars,
                 fileGhost, fleet, opArgs>>

(* ---- start(): chrome_devtools.py 96-142 ---- *)
Popen ==
  /\ AtStep("Popen")
  /\ \/ /\ Unwind("FileNotFoundError", NoErr)
        /\ UNCHANGED <<chrome_process, proc>>
     \/ /\ chrome_process' = "Popen" /\ proc' = "running"
        /\ ContinueS(Tail(todo))
  /\ elapsed' = 0
  /\ UNCHANGED <<ws, cmd_id, conn, browser, studio, op, loadGhost, sendGhost,
                 ret, stopGhost, acked, grace, retval, seqVars, fileGhost,
                 fleet, opArgs>>

\* a second passes while start() polls, or sits in urlopen
Tick ==
  /\ todo # <<>> /\ Head(todo) = "poll" /\ pc \in {"run", "blocked"}
  /\ ~TimedOut(elapsed)
  /\ elapsed' = elapsed + 1
  /\ UNCHANGED <<fields, proc, conn, browser, scope, studio, pc, op, todo,
                 waiting, exc, excErr, servers, loadGhost, sendGhost, ret,
                 stopGhost, acked, grace, retval, seqVars, fileGhost,
                 unwound, fleet, opArgs>>

\* lines 122-140: one iteration of the polling loop. start_time is not read
\* after the loop.
Poll ==
  /\ AtStep("poll")
  /\ \/ \* the endpoint lists the blank page
        /\ proc = "running"
        /\ elapsed' = 0
        /\ ContinueS(Tail(todo))
     \/ \* urlopen raises, or no blank page is listed
        IF TimedOut(elapsed)
        THEN Unwind("StartupTimeout", NoErr) /\ elapsed' = 0
        ELSE UNCHANGED <<pc, todo, waiting, scope, exc, excErr, servers,
                         unwound, elapsed>>
     \/ \* something accepts on the port and never answers: urlopen, called
        \* without a timeout, does not return
        /\ pc' = "blocked"
        /\ UNCHANGED <<todo, waiting, scope, exc, excErr, servers, unwound,
                       elapsed>>
  /\ UNCHANGED <<fields, proc, conn, browser, studio, op, loadGhost,
                 sendGhost, ret, stopGhost, acked, grace, retval, seqVars,
                 fileGhost, fleet, opArgs>>

Connect ==
  /\ AtStep("create_connection")
  /\ \/ /\ Unwind("ConnectFailed", NoErr)
        /\ UNCHANGED <<ws, conn, inbox, pendingReq, pendingLoads, inflight,
                       acked>>
     \/ /\ ws' = "WS" /\ conn' = "open"
        /\ inbox' = <<>> /\ pendingReq' = {} /\ pendingLoads' = {}
        /\ inflight' = 0 /\ acked' = {}
        /\ ContinueS(Tail(todo))
  /\ UNCHANGED <<chrome_process, cmd_id, proc, noise, studio, op, loadGhost,
                 nSent, lastSentId, ret, stopGhost, elapsed, grace, retval,
                 seqVars, fileGhost, fleet, opArgs>>


(* ---- _send_command: chrome_devtools.py 161-180 ---- *)
\* lines 163-169: the connection check, the id, the write
Send ==
  /\ pc = "run" /\ ~waiting /\ todo # <<>> /\ Head(todo) \in Commands
  /\ LET step == Head(todo)
         isNav == step = "Page.navigate"
         isUpd == step = "update_state.evaluate"
         sent ==
           /\ nSent' = nSent + 1 /\ lastSentId' = cmd_id'
           /\ inflight' = inflight + 1
           /\ waiting' = TRUE
           /\ curNav' = IF isNav THEN navCount + 1 ELSE curNav
           /\ navCount' = IF isNav THEN navCount + 1 ELSE navCount
           /\ curAnswered' = IF isNav THEN FALSE ELSE curAnswered
           /\ curFired' = IF isNav THEN FALSE ELSE curFired
           /\ updSent' = IF isUpd THEN updSent + 1 ELSE updSent
           /\ UNCHANGED <<pc, todo, scope, exc, excErr, servers, lastLoad,
                          unwound>>
     IN
     \/ /\ ws = None
        /\ Unwind("NotConnected", NoErr)
        /\ cmd_id' = CmdIdWhenNotConnected(cmd_id)
        /\ UNCHANGED <<conn, pendingReq, pendingLoads, loadGhost, sendGhost,
                       ret, updSent>>
     \/ /\ ws # None /\ cmd_id < MaxCmds
        /\ cmd_id' = NextCmdId(cmd_id)
        /\ ret' = NoRet
        /\ \/ \* the browser receives the command
              /\ conn = "open"
              /\ sent
              /\ \E e \in Errs, blank \in BOOLEAN :
                   /\ pendingReq' = pendingReq \cup
                        {[id |-> cmd_id', method |-> Method(step), err |-> e,
                          req |-> nSent + 1, step |-> step]}
                   /\ pendingLoads' =
                        IF isNav /\ e = NoErr
                        THEN pendingLoads \cup {navCount + 1}
                        ELSE IF step = "Page.enable" /\ e = NoErr /\ blank
                        THEN pendingLoads \cup {0}
                        ELSE pendingLoads
              /\ UNCHANGED conn
           \/ \* the peer is gone but the write still succeeds locally
              /\ conn = "dropped"
              /\ sent
              /\ UNCHANGED <<conn, pendingReq, pendingLoads>>
           \/ \* the write raises
              /\ conn \in {"dropped", "dead"}
              /\ Unwind("ConnectionClosed", NoErr)
              /\ conn' = "dead"
              /\ UNCHANGED <<pendingReq, pendingLoads, loadGhost, sendGhost,
                             updSent>>
  /\ UNCHANGED <<chrome_process, ws, proc, inbox, noise, studio, op,
                 stopGhost, startGhost, retval, nUpd, nNames, updSeen,
                 updFailed, frames, written, outDir, filesOut, fileGhost,
                 fleet, opArgs>>

\* lines 172-180: one iteration of the loop that reads until the id matches;
\* on return the caller of _send_command takes what it reads from the result
Recv ==
  /\ pc = "run" /\ waiting /\ inbox # <<>>
  /\ LET msg == Head(inbox)
         step == Head(todo)
     IN
     /\ inbox' = Tail(inbox)
     /\ inflight' = IF msg.id # NoId THEN inflight - 1 ELSE inflight
     /\ IF IsMatch(msg, cmd_id)
        THEN /\ ret' = [msg |-> msg, id |-> cmd_id, req |-> nSent,
                         skipped |-> ret.skipped]
             /\ IF OnMatch(msg) = "raise"
                THEN /\ Unwind("ProtocolError", msg.err)
                     /\ UNCHANGED <<acked, retval, frames, filesOut>>
                ELSE IF step = "Page.captureScreenshot" /\ ~HasData(msg)
                THEN /\ Unwind("CaptureError", NoErr)
                     /\ UNCHANGED <<acked, retval, frames, filesOut>>
                ELSE /\ \E rest \in After(step, Tail(todo)) : ContinueS(rest)
                     /\ filesOut' = IF step = "Page.captureScreenshot" /\ toPath
                                    THEN 1 ELSE filesOut
                     /\ acked' = IF step \in {"Page.enable", "Runtime.enable"}
                                 THEN acked \cup {step} ELSE acked
                     /\ retval' = IF step = "Runtime.evaluate"
                                  THEN EvaluateReturn(msg)
                                  ELSE IF step = "Page.captureScreenshot"
                                  THEN ScreenshotReturn(toPath) ELSE retval
                     /\ frames' = IF step = "capture_image"
                                  THEN Append(frames, msg.frame) ELSE frames
        ELSE /\ ret' = [ret EXCEPT !.skipped = 1]
             /\ UNCHANGED <<pc, todo, waiting, scope, exc, excErr, servers,
                            unwound, acked, retval, frames, filesOut>>
  /\ UNCHANGED <<fields, proc, conn, pendingReq, pendingLoads, noise, studio,
                 op, loadGhost, nSent, lastSentId, stopGhost, elapsed, grace,
                 nUpd, nNames, updSent, updSeen, updFailed, written, outDir,
                 fileGhost, fleet, opArgs>>

\* recv() on a connection the peer has closed, once the buffered messages
\* are read, raises; in _send_command or in the load wait of set_content
RecvClosed ==
  /\ pc = "run" /\ (waiting \/ Head(todo) = "wait_load")
  /\ inbox = <<>> /\ conn \in {"dropped", "dead"} /\ ws # None
  /\ Unwind("ConnectionClosed", NoErr)
  /\ conn' = "dead"
  /\ UNCHANGED <<fields, proc, browser, studio, op, loadGhost, sendGhost,
                 ret, stopGhost, startGhost, retval, seqVars, fileGhost,
                 fleet, opArgs>>

(* ---- set_content: chrome_devtools.py 192-233 ---- *)
\* lines 193-217: the temporary directory, the files, the server, its thread
Serve ==
  /\ AtStep("serve")
  /\ served' = TRUE
  /\ tmpDirs' = tmpDirs + 1
  /\ rootFiles' = {"index.html"} \cup files
  /\ listening' = listening + 1
  /\ threadsAlive' = threadsAlive + 1
  /\ loadSeen' = FALSE
  /\ Continue(Tail(todo))
  /\ UNCHANGED <<fields, proc, conn, browser, studio, op, loadGhost,
                 sendGhost, ret, stopGhost, startGhost, retval, seqVars,
                 files, encoder, pipe, fleet, opArgs>>

\* lines 224-229: one iteration of the loop that reads until a load event
WaitLoad ==
  /\ AtStep("wait_load")
  /\ IF ws = None
     THEN /\ Unwind("ConnectionLost", NoErr)
          /\ UNCHANGED <<inbox, inflight, lastLoad, loadSeen>>
     ELSE /\ inbox # <<>>
          /\ LET msg == Head(inbox) IN
             /\ inbox' = Tail(inbox)
             /\ inflight' = IF msg.id # NoId THEN inflight - 1 ELSE inflight
             /\ IF IsLoadEvent(msg)
                THEN /\ lastLoad' = msg.nav
                     /\ loadSeen' = TRUE
                     /\ ContinueS(Tail(todo))
                ELSE UNCHANGED <<lastLoad, pc, todo, waiting, scope, exc,
                                 excErr, servers, unwound, loadSeen>>
  /\ UNCHANGED <<fields, proc, conn, pendingReq, pendingLoads, noise, studio,
                 op, curNav, navCount, curAnswered, curFired, nSent,
                 lastSentId, ret, stopGhost, startGhost, retval, seqVars,
                 files, fleet, opArgs>>

\* lines 232-233 and the exits of the two with-blocks
Shutdown ==
  /\ AtStep("shutdown")
  /\ threadsAlive' = threadsAlive - 1
  /\ listening' = listening - 1
  /\ tmpDirs' = tmpDirs - 1
  /\ rootFiles' = {}
  /\ served' = FALSE
  /\ Continue(Tail(todo))
  /\ UNCHANGED <<fields, proc, conn, browser, studio, op, loadGhost,
                 sendGhost, ret, stopGhost, startGhost, retval, seqVars,
                 fileGhost, encoder, pipe, fleet, opArgs>>

(* ---- the sequence operations: screenshots.py 153-168, 199-244 ---- *)
\* capture_image_sequence: return frames
ReturnFrames ==
  /\ AtStep("return_frames")
  /\ retval' = "frames"
  /\ ContinueS(Tail(todo))
  /\ UNCHANGED <<fields, proc, conn, browser, studio, op, loadGhost,
                 sendGhost, ret, stopGhost, startGhost, seqVars, fileGhost,
                 fleet, opArgs>>

\* save_image_sequence, lines 217-225: the directory, then the count check
PrepareOutput ==
  /\ AtStep("prepare_output")
  /\ outDir' = TRUE
  /\ IF FilenameMismatch(nNames, nUpd)
     THEN Unwind("ValueError", NoErr)
     ELSE ContinueS(Tail(todo))
  /\ UNCHANGED <<fields, proc, conn, browser, studio, op, loadGhost,
                 sendGhost, ret, stopGhost, startGhost, retval, nUpd, nNames,
                 updSent, updSeen, updFailed, frames, written, filesOut,
                 fileGhost, fleet, opArgs>>

\* save_image_sequence, lines 236-244: one file per captured frame
WriteFiles ==
  /\ AtStep("write_files")
  /\ filesOut' = IF Len(frames) < nUpd THEN Len(frames) ELSE nUpd
  /\ retval' = "paths"
  /\ ContinueS(Tail(todo))
  /\ UNCHANGED <<fields, proc, conn, browser, studio, op, loadGhost,
                 sendGhost, ret, stopGhost, startGhost, nUpd, nNames,
                 updSent, updSeen, updFailed, frames, written, outDir,
                 fileGhost, fleet, opArgs>>

\* update_state, lines 132-133: the argument must be a list
CheckList ==
  /\ AtStep("check_list")
  /\ IF argIsList
     THEN ContinueS(Tail(todo))
     ELSE Unwind("AssertionError", NoErr)
  /\ UNCHANGED <<fields, proc, conn, browser, studio, op, loadGhost,
                 sendGhost, ret, stopGhost, startGhost, retval, seqVars,
                 fileGhost, fleet, opArgs>>

\* save_image, lines 189-197: write the frame to the path, or return it
SaveImageWrite ==
  /\ AtStep("save_image.write")
  /\ outDir' = (outDir \/ toPath)
  /\ filesOut' = IF toPath THEN 1 ELSE filesOut
  /\ retval' = ScreenshotReturn(toPath)
  /\ ContinueS(Tail(todo))
  /\ UNCHANGED <<fields, proc, conn, browser, studio, op, loadGhost,
                 sendGhost, ret, stopGhost, startGhost, nUpd, nNames, updSent,
                 updSeen, updFailed, frames, written, fileGhost, fleet,
                 opArgs>>

(* ---- capture_video: screenshots.py 278-359 ---- *)
\* lines 306-329: the directory of the output file, the ffmpeg process
SpawnEncoder ==
  /\ AtStep("spawn_encoder")
  /\ outDir' = TRUE
  /\ encoder' = "running" /\ pipe' = "open"
  /\ Continue(Tail(todo))
  /\ UNCHANGED <<fields, proc, conn, browser, studio, op, servers, loadGhost,
                 sendGhost, ret, stopGhost, startGhost, retval, nUpd, nNames,
                 updSent, updSeen, updFailed, frames, written, filesOut,
                 fileGhost, rootFiles, fleet, opArgs>>

\* lines 337-338: proc.stdin.write(frame_bytes); the pipe is broken once ffmpeg
\* has gone
PipeWrite ==
  /\ AtStep("pipe_write")
  /\ IF encoder = "running"
     THEN /\ written' = Append(written, frames[Len(frames)])
          /\ ContinueS(Tail(todo))
     ELSE /\ Unwind("BrokenPipeError", NoErr)
          /\ UNCHANGED written
  /\ UNCHANGED <<fields, proc, conn, browser, studio, op, loadGhost,
                 sendGhost, ret, stopGhost, startGhost, retval, nUpd, nNames,
                 updSent, updSeen, updFailed, frames, outDir, filesOut,
                 fileGhost, fleet, opArgs>>

\* lines 342-343: proc.stdin.close()
PipeClose ==
  /\ AtStep("pipe_close")
  /\ pipe' = "closed"
  /\ Continue(Tail(todo))
  /\ UNCHANGED <<fields, proc, conn, browser, studio, op, servers, loadGhost,
                 sendGhost, ret, stopGhost, startGhost, retval, seqVars,
                 fileGhost, rootFiles, encoder, fleet, opArgs>>

\* proc.wait() returns once the process has ended
WaitReturnsAtOnce(enc) == TRUE
WaitReturns(enc) == enc # "running"

\* lines 344-353: proc.wait(); return filename
ProcWait ==
  /\ AtStep("proc_wait")
  /\ WaitReturns(encoder)
  /\ retval' = "filename"
  /\ ContinueS(Tail(todo))
  /\ UNCHANGED <<fields, proc, conn, browser, studio, op, loadGhost,
                 sendGhost, ret, stopGhost, startGhost, seqVars, fileGhost,
                 fleet, opArgs>>

\* ffmpeg ends: its input reached end of file, or it failed
EncoderExit ==
  /\ encoder = "running"
  /\ encoder' = "exited"
  /\ returncode' \in {0, 1}
  /\ UNCHANGED <<argIsList, toPath, droppedInWait>>
  /\ UNCHANGED <<fields, proc, conn, browser, scope, studio, pc, op, todo,
                 waiting, exc, excErr, servers, loadGhost, sendGhost, ret,
                 stopGhost, startGhost, retval, seqVars, fileGhost,
                 rootFiles, pipe, fleet>>

(* ---- the browser ---- *)
\* the page runs a command and answers it; a screenshot shows the page after
\* the updates it has run so far
BrowserRespond ==
  /\ conn = "open"
  /\ \E r \in pendingReq :
       \E res \in (IF r.err = NoErr THEN Results(r.step) ELSE {""}) :
         LET ran == r.step = "update_state.evaluate" /\ r.err = NoErr
             seen == IF ran THEN updSeen + 1 ELSE updSeen
         IN /\ inbox' = Append(inbox,
                 Resp(r.id, r.err, r.req, res,
                      IF res = "data" THEN seen ELSE 0))
            /\ pendingReq' = pendingReq \ {r}
            /\ curAnswered' = (curAnswered \/ r.method = "Page.navigate")
            /\ updSeen' = seen
            /\ updFailed' = (updFailed \/ res = "error: message")
  /\ UNCHANGED <<fields, proc, conn, pendingLoads, noise, scope, studio, pc,
                 op, todo, waiting, exc, excErr, servers, curNav, navCount,
                 lastLoad, curFired, sendGhost, ret, stopGhost, startGhost,
                 retval, nUpd, nNames, updSent, frames, written, outDir,
                 filesOut, fileGhost, unwound, fleet, opArgs>>

BrowserFireLoad ==
  /\ conn = "open"
  /\ \E n \in pendingLoads :
       /\ inbox' = Append(inbox, Msg(NoId, "Page.loadEventFired", NoErr, n, 0))
       /\ pendingLoads' = pendingLoads \ {n}
       /\ curFired' = (curFired \/ (n = curNav /\ n # 0))
  /\ UNCHANGED <<fields, proc, conn, pendingReq, noise, scope, studio, pc,
                 op, todo, waiting, exc, excErr, servers, curNav, navCount,
                 lastLoad, curAnswered, sendGhost, ret, stopGhost,
                 startGhost, retval, seqVars, fileGhost, unwound, fleet,
                 opArgs>>

BrowserNoise ==
  /\ conn = "open" /\ noise < MaxNoise
  /\ noise' = noise + 1
  /\ inbox' = Append(inbox, Msg(NoId, "Other", NoErr, 0, 0))
  /\ UNCHANGED <<fields, proc, conn, pendingReq, pendingLoads, scope, studio,
                 pc, op, todo, waiting, exc, excErr, servers, loadGhost,
                 sendGhost, ret, stopGhost, startGhost, retval, seqVars,
                 fileGhost, unwound, fleet, opArgs>>

\* the browser closes the connection
ConnDrop ==
  /\ conn = "open"
  /\ conn' = "dropped"
  /\ pendingReq' = {} /\ pendingLoads' = {}
  /\ droppedInWait' = (droppedInWait \/ AwaitingLoad)
  /\ UNCHANGED <<argIsList, toPath, returncode>>
  /\ UNCHANGED <<fields, proc, inbox, noise, scope, studio, pc, op, todo,
                 waiting, exc, excErr, servers, loadGhost, sendGhost, ret,
                 stopGhost, startGhost, retval, seqVars, fileGhost, unwound,
                 fleet>>

ClientStep ==
  \/ Popen \/ Poll \/ Connect \/ Send \/ Recv \/ RecvClosed
  \/ Serve \/ WaitLoad \/ Shutdown \/ WithExit
  \/ ReturnFrames \/ PrepareOutput \/ WriteFiles
  \/ SpawnEncoder \/ PipeWrite \/ PipeClose \/ ProcWait
  \/ CheckList \/ SaveImageWrite

Next ==
  \/ Call \/ Stop \/ StopDuringLoad \/ WithEnter \/ WithBodyEnd \/ WithExit
  \/ Interrupt
  \/ Popen \/ Tick \/ Poll \/ Connect \/ Send \/ Recv \/ RecvClosed
  \/ Serve \/ WaitLoad \/ Shutdown
  \/ ReturnFrames \/ PrepareOutput \/ WriteFiles
  \/ SpawnEncoder \/ PipeWrite \/ PipeClose \/ ProcWait \/ EncoderExit
  \/ CheckList \/ SaveImageWrite
  \/ BrowserRespond \/ BrowserFireLoad \/ BrowserNoise \/ ConnDrop

Spec == Init /\ [][Next]_vars

\* the thread that drives the session keeps running
FairSpec == Spec /\ WF_vars(ClientStep)

\* and the clock keeps running while start() polls
TimedSpec == FairSpec /\ WF_vars(Tick)

(* ---- two sessions constructed with port=9222: chrome_devtools.py ---- *)
\* lines 116-118: the browser the session spawns takes the debugging port if
\* no other browser listens there
FleetPopen(s) ==
  /\ fleet.at[s] = "idle" /\ ~fleet.cp[s]
  /\ \E u \in (IF fleet.owner = 0 THEN {"data:,"} ELSE {"data:,", "none"}) :
       \* a browser that finds the port taken runs without it, or exits
       fleet' = [fleet EXCEPT !.cp[s] = TRUE, !.url[s] = u,
                              !.at[s] = "poll", !.exc[s] = "none",
                              !.owner = IF @ = 0 THEN s ELSE @]
  /\ UNCHANGED mainVars

\* lines 120-140: GET /json on the port is answered by the browser that
\* listens there; the target wanted is a page whose url is "data:,"
FleetPoll(s) ==
  /\ fleet.at[s] = "poll"
  /\ IF fleet.owner # 0 /\ fleet.url[fleet.owner] = "data:,"
     THEN fleet' = [fleet EXCEPT !.found[s] = fleet.owner,
                                 !.at[s] = "create_connection"]
     ELSE fleet' = [fleet EXCEPT !.at[s] = "idle",
                                 !.exc[s] = "StartupTimeout"]
  /\ UNCHANGED mainVars

\* line 142: create_connection(page_target["webSocketDebuggerUrl"])
FleetConnect(s) ==
  /\ fleet.at[s] = "create_connection"
  /\ fleet' = [fleet EXCEPT !.target[s] = fleet.found[s], !.found[s] = 0,
                            !.at[s] = "idle"]
  /\ UNCHANGED mainVars

\* set_content: the page the session is connected to navigates
FleetNavigate(s) ==
  /\ fleet.at[s] = "idle" /\ fleet.target[s] # 0
  /\ fleet.url[fleet.target[s]] = "data:,"
  /\ fleet' = [fleet EXCEPT !.url[fleet.target[s]] = "http://localhost"]
  /\ UNCHANGED mainVars

\* stop(): the socket is closed, the process the session spawned terminated
FleetStop(s) ==
  /\ fleet.at[s] = "idle" /\ (fleet.cp[s] \/ fleet.target[s] # 0)
  /\ fleet' = [fleet EXCEPT !.target[s] = 0, !.cp[s] = FALSE,
                            !.exc[s] = "none",
                            !.url[s] = IF fleet.cp[s] THEN "none" ELSE @,
                            !.owner = IF fleet.cp[s] /\ @ = s THEN 0 ELSE @]
  /\ UNCHANGED mainVars

PortInit == Init /\ scope = "manual"

PortNext ==
  \E s \in Sessions :
    \/ FleetPopen(s) \/ FleetPoll(s) \/ FleetConnect(s)
    \/ FleetNavigate(s) \/ FleetStop(s)

PortSpec == PortInit /\ [][PortNext]_vars

TypeOK ==
  /\ chrome_process \in {None, "Popen"} /\ ws \in {None, "WS"}
  /\ cmd_id \in 0..MaxCmds
  /\ inflight \in 0..MaxCmds
  /\ threadsAlive >= 0 /\ listening >= 0 /\ tmpDirs >= 0

(* ======================= the claims ======================= *)

Steps(t) == {t[i] : i \in DOMAIN t}
\* a set_content call is in progress
InSetContent == pc = "run" /\ "shutdown" \in Steps(todo)
\* set_content has sent its navigate command and has not left its load wait
InLoadWait ==
  /\ pc = "run" /\ todo # <<>>
  /\ \/ Head(todo) = "wait_load"
     \/ Head(todo) = "Page.navigate" /\ waiting

\* C1: once control has left a with-statement over a session, however it
\* ended, the browser process the session spawned has been terminated and
\* its connection is closed.
C1_ScopeReleasesBrowser ==
  scope = "left" => proc # "running" /\ conn \notin {"open", "dropped"}

\* C2: stop() does not raise in any state; after a stop() the session has no
\* connection and no process handle, the connection is closed and the process
\* is not running; a stop() that directly follows a stop() closes nothing and
\* terminates nothing.
C2_StopIdempotent ==
  /\ stopsInRow >= 1 =>
       /\ ws = None /\ chrome_process = None
       /\ proc # "running" /\ conn \notin {"open", "dropped"}
       /\ (op = "stop" => exc = "none")
  /\ stopsInRow = 2 => stopActs = <<>>
\* a second stop() in a row on a session that had been connected
C2_Witness == stopsInRow = 2 /\ op = "stop" /\ nSent >= 2

\* C3: once the browser has written both the response to the navigate command
\* and the load event of that navigation, set_content leaves its load wait.
C3_LoadWaitEnds == (InLoadWait /\ curAnswered /\ curFired) ~> ~InLoadWait

\* C4: a set_content that returned normally ended its wait on the load event
\* of the navigation it issued itself.
C4_LoadOfOwnNavigation ==
  (op = "set_content" /\ pc = "idle" /\ exc = "none") => lastLoad = curNav

\* C5: at most one content server exists at a time, and none exists (no
\* listening socket, no live server thread, no temporary directory) while no
\* set_content call is in progress.
C5_ServerScopedToLoad ==
  /\ listening <= 1 /\ threadsAlive <= 1 /\ tmpDirs <= 1
  /\ ~InSetContent => listening = 0 /\ threadsAlive = 0 /\ tmpDirs = 0

\* C6: after set_content has raised because the navigate command failed or the
\* connection was lost, no content-server thread is alive and no temporary
\* directory is left.
C6_ErrorReleasesServer ==
  (op = "set_content" /\ pc = "idle"
     /\ exc \in {"ProtocolError", "ConnectionClosed", "ConnectionLost"})
  => threadsAlive = 0 /\ tmpDirs = 0

C8_IdsGrowByOne == lastSentId = nSent
\* C8 amended: every command sent carries the current counter value, which is
\* greater than the id of every command sent before and at least the number
\* of commands sent so far.
C8_IdsStrictlyIncrease ==
  [][nSent' # nSent =>
       /\ lastSentId' > lastSentId
       /\ lastSentId' = cmd_id'
       /\ lastSentId' >= nSent']_vars
\* a command was sent after an id had been used up by a write that failed
C8_Witness == lastSentId > nSent /\ waiting /\ lastSentId = cmd_id

\* C9: a command is written only when no command written before it on the
\* connection is still unanswered.
C9_OneInFlight ==
  [][nSent' # nSent => inflight = 0 /\ inflight' = 1]_vars
\* set_size has sent its second command, whose parameter is the result of
\* the first
C9_Witness ==
  /\ op = "set_size" /\ waiting /\ inflight = 1
  /\ Head(todo) = "Browser.setWindowBounds"

\* C10: when the matching response carries an error, the operation ends with
\* a ProtocolError carrying that error, nothing is returned, and no command
\* was written after the one that failed.
C10_ErrorResponseRaises ==
  ret.msg.err # NoErr =>
    /\ pc = "idle" /\ todo = <<>>
    /\ exc = "ProtocolError" /\ excErr = ret.msg.err
    /\ ret.req = nSent
\* a navigate command was answered with an error
C10_Witness ==
  ret.msg.err = "E1" /\ exc = "ProtocolError" /\ op = "set_content"

AtPoll == todo # <<>> /\ Head(todo) = "poll"
Enables == {"Page.enable", "Runtime.enable"}

\* C11: a session is Unstarted, Starting, Connected or Stopped: there is never
\* a connection without a process handle, and a start() that returned
\* normally left a process, a connection, and both Page.enable and
\* Runtime.enable acknowledged on that connection.
C11_SessionStates ==
  /\ ws # None => chrome_process # None
  /\ (op = "start" /\ pc = "idle" /\ exc = "none") =>
       /\ chrome_process # None /\ ws # None
       /\ Enables \subseteq acked

\* C12: start() does not stay in its polling loop: it leaves it with a target
\* or with the startup-timeout error.
C12_StartBounded == AtPoll ~> ~AtPoll

\* C19: stop() closes the connection before it terminates the process, kills
\* the process only after terminate and a wait whose grace period expired,
\* and never kills a process that exited within the grace period.
C19_TeardownOrdered ==
  LET n == Len(stopActs) IN
  /\ \A i \in 1..n :
       /\ stopActs[i] = "ws.close" => i = 1
       /\ stopActs[i] = "kill" =>
            /\ i = n /\ i >= 3 /\ grace = "expired"
            /\ stopActs[i - 2] = "terminate" /\ stopActs[i - 1] = "wait"
  /\ grace = "exited" =>
       /\ \A i \in 1..n : stopActs[i] # "kill"
       /\ \E i \in 1..n : stopActs[i] = "terminate"
  /\ grace = "expired" => n >= 1 /\ stopActs[n] = "kill"
C19_Witness ==
  /\ stopActs = <<"ws.close", "terminate", "wait", "kill">>
  /\ grace = "expired" /\ nSent >= 2

\* the operation o has returned normally
Returned(o) == op = o /\ pc = "idle" /\ exc = "none"
\* the i-th frame shows the page after exactly i updates
InOrder(fs) == \A i \in 1..Len(fs) : fs[i] = i

\* C13: an evaluate whose script threw in the page raises an evaluation
\* error; it does not return None.
C13_ThrowRaises ==
  (op = "evaluate" /\ pc = "idle" /\ ret.msg.res = "exceptionDetails") =>
    (exc = "EvaluationError" /\ retval # None)

\* C14: a capture_image_sequence that returned has sent every update once,
\* and returns one frame per update, the i-th taken after the i-th update
\* ran in the page and before the next one.
C14_OneFramePerUpdate ==
  Returned("capture_image_sequence") =>
    /\ Len(frames) = nUpd /\ updSent = nUpd /\ updSeen = nUpd
    /\ InOrder(frames) /\ retval = "frames"
C14_Witness == Returned("capture_image_sequence") /\ nUpd >= 2

\* C15: a sequence operation in which an update threw in the page raises,
\* and never holds a frame for the update that failed.
C15_FirstFailureAborts ==
  (op \in SeqOps /\ updFailed) =>
    /\ Len(frames) < updSent
    /\ pc = "idle" => exc # "none"

\* C16: a save_image_sequence that failed on the number of filenames has
\* created no directory and no file, and has sent no command.
C16_MismatchFailsFast ==
  (op = "save_image_sequence" /\ exc = "ValueError") =>
    (~outDir /\ filesOut = 0 /\ updSent = 0 /\ frames = <<>>)

\* C17: capture_video hands each frame to the encoder's stdin (the call of
\* proc.stdin.write) before it sends the next update, so that at most one
\* captured frame is unwritten, frames are written in the order captured, one
\* per update; the pipe is closed after the last frame is written and the
\* operation returns after the encoder has exited.
C17_VideoStreams ==
  op = "capture_video" =>
    /\ Len(frames) - Len(written) \in {0, 1}
    /\ updSent - Len(written) \in {0, 1}
    /\ \A i \in 1..Len(written) : written[i] = frames[i]
    /\ InOrder(frames)
    /\ (pipe = "closed" /\ exc = "none") => Len(written) = nUpd
    /\ (pc = "idle" /\ exc = "none") =>
         /\ Len(written) = nUpd /\ pipe = "closed" /\ encoder = "exited"
         /\ retval = "filename"
C17_Witness ==
  Returned("capture_video") /\ nUpd >= 2 /\ written = <<1, 2>>

\* C18: a capture_video that started its encoder and ended with an error has
\* closed the encoder's stdin and the encoder is not left running.
C18_ErrorStopsEncoder ==
  (op = "capture_video" /\ pc = "idle" /\ exc # "none" /\ encoder # "none")
    => (pipe = "closed" /\ encoder \in {"exited", "terminated"})

\* C20: from the moment set_content sends its navigate command until its load
\* wait returns, the index document and every auxiliary file are under the
\* served root and the server is listening; a set_content that does not fail
\* removes them only at its end, after its wait saw a load event.
C20_ServedDuringLoad ==
  [][/\ InLoadWait =>
          (served /\ listening >= 1 /\ rootFiles = {"index.html"} \cup files)
     /\ (rootFiles # {} /\ rootFiles' = {} /\ exc' = "none") =>
          (loadSeen /\ AtStep("shutdown"))]_vars
C20_Witness ==
  /\ op = "set_content" /\ pc = "idle" /\ exc = "none" /\ loadSeen
  /\ "assets/studio.css" \in files /\ rootFiles = {}

\* C21: a set_content whose connection went away (closed by the browser, or
\* the session stopped) after navigate was sent and before the load event of
\* that navigation was written does not return normally.
C21_DropFailsLoad ==
  (op = "set_content" /\ pc = "idle" /\ droppedInWait) => exc # "none"

\* C22: among two sessions constructed with the default port, a session is
\* only ever connected to the page of the browser it spawned, and the two are
\* never connected to the same page.
C22_ExclusiveOwnership ==
  /\ \A s \in Sessions : fleet.target[s] # 0 => fleet.target[s] = s
  /\ \A s, t \in Sessions :
       (s # t /\ fleet.target[s] # 0) => fleet.target[s] # fleet.target[t]

\* C23: a screenshot whose response carries no image data raises the capture
\* error, returns nothing and writes no file; a screenshot that returned got
\* data, and wrote the file exactly when a path was given.
C23_NoDataRaises ==
  (op = "screenshot" /\ pc = "idle") =>
    /\ (ret.msg.err = NoErr /\ ret.msg.res = "no data") =>
         (exc = "CaptureError" /\ retval = None /\ filesOut = 0)
    /\ (exc = "none" /\ ret.msg # NoMsg) =>
         /\ ret.msg.res = "data" /\ retval = ScreenshotReturn(toPath)
         /\ filesOut = (IF toPath THEN 1 ELSE 0)
C23_Witness ==
  /\ op = "screenshot" /\ pc = "idle" /\ exc = "CaptureError"
  /\ ret.msg.res = "no data"

\* C24: save_image sends its update, when one is given, before it captures,
\* captures once, and writes a file only after the capture and only when a
\* path is given; it returns the path after the write, or else the bytes.
C24_SaveImageOrder ==
  op = "save_image" =>
    /\ Len(frames) <= 1 /\ updSent <= nUpd
    /\ frames # <<>> => (frames[1] = nUpd /\ updSent = nUpd)
    /\ filesOut > 0 => (toPath /\ Len(frames) = 1)
    /\ (pc = "idle" /\ exc = "none") =>
         /\ Len(frames) = 1
         /\ retval = ScreenshotReturn(toPath)
         /\ filesOut = (IF toPath THEN 1 ELSE 0)
C24_Witness ==
  Returned("save_image") /\ nUpd = 1 /\ toPath /\ filesOut = 1

\* C25: an update_state whose argument is not a list sends no command and
\* leaves the request-id counter alone, and ends with the validation error;
\* the sequence operations and save_image pass a list.
C25_RejectsNonList ==
  [][/\ (op = "update_state" /\ ~argIsList /\ pc = "run") =>
          /\ cmd_id' = cmd_id /\ nSent' = nSent /\ updSent' = 0
          /\ pc' # "run" => exc' = "AssertionError"
     /\ op \in SeqOps \cup {"save_image"} => argIsList]_vars
C25_Witness ==
  /\ op = "update_state" /\ pc = "idle" /\ exc = "AssertionError"
  /\ ws # None /\ conn = "open" /\ nSent >= 2

\* C26: start() spawns a process only when the session holds no process
\* handle and opens a connection only when it holds none; no process runs
\* that the session has no handle for.
C26_OneProcess ==
  /\ (todo # <<>> /\ Head(todo) = "Popen") =>
       (chrome_process = None /\ ws = None)
  /\ (todo # <<>> /\ Head(todo) = "create_connection") => ws = None
  /\ chrome_process = None => proc # "running"
\* a start() on a session that holds a process has re-applied the size
C26_Witness ==
  /\ op = "start" /\ pc = "run" /\ waiting
  /\ Head(todo) = "Page.setDeviceMetricsOverride"
  /\ chrome_process # None /\ proc = "running"

PageOps == {"set_size", "set_content", "evaluate", "screenshot"}

C28_StartRetries == ~(op = "start" /\ pc = "idle" /\ exc = "NotConnected")

\* C29: save_image_sequence has written a file only if every update was
\* applied without failing and every frame captured; when it returned it has
\* written one file per update, the i-th holding the frame after update i.
C29_AllOrNothing ==
  op = "save_image_sequence" =>
    /\ filesOut > 0 => (~updFailed /\ Len(frames) = nUpd /\ exc = "none")
    /\ (pc = "idle" /\ exc = "none") =>
         (filesOut = nUpd /\ InOrder(frames) /\ retval = "paths")

\* C30: a capture_video that returned the filename had an encoder that
\* exited with status 0.
C30_EncoderSucceeded ==
  Returned("capture_video") => (encoder = "exited" /\ returncode = 0)

====
